---- MODULE Spec2Model ----
(***************************************************************************)
(* photo-dash: the layout and composition engine of photo_dash/image.py.   *)
(*                                                                         *)
(* A DashImage (module, title, sections, y) is constructed from a request  *)
(* and create() renders it: capacity check, title, one step per section    *)
(* (a gauge is built mark by mark), footer, save.  Exceptions that leave   *)
(* create() are recorded in exc.                                           *)
(*                                                                         *)
(* Encodings.  A string handed to textwrap.wrap is the sequence of the     *)
(* lengths of its words (single spaces between them); a wrapped line is    *)
(* the sequence of its chunks, a chunk being a number of word characters   *)
(* or Space.  A section is a record whose field keys is the set of keys    *)
(* the mapping really has; a field whose key is absent holds a filler      *)
(* that is never read.  A text section's string is in words, a gauge's    *)
(* reading in value; both stand for the mapping's 'value' key.  A text     *)
(* section's colour is the one-element sequence color.  Numbers are        *)
(* integers.                                                               *)
(***************************************************************************)
EXTENDS Integers, Sequences, FiniteSets, TLC

\* ------------------------------------------------------------ bounds
\* Longest request drawn from CorePool.
MaxSections == 3
\* Longest request drawn from the whole SectionPool.
MaxVaried == 1
\* Number of create() calls made on one DashImage.
MaxCreates == 2
\* days the quiet-hours loop is followed for, after the day it starts on
MaxDays == 2

\* --------------------------------------------------------- constants
SPACER == 10
V_SPACER == 5
H_SPACER == 5
TEXT_COLOR == "#FFFFFF"
TITLE_SIZE == 20
SECTION_SIZE == 16
FOOTER_SIZE == 10
GAUGE_VALUE_STROKE == 2
GAUGE_LINE_WIDTH == 5
GAUGE_LINE_COLOR == "#808080"

\* config.WIDTH, read from config.json (the documented default canvas).
WIDTH == 480

SECTION_SPACING == [text |-> 1, gauge |-> 2]

\* ceil(a / b) for a >= 0, b > 0
CeilDiv(a, b) == (a + b - 1) \div b

\* int(16 * 10 / 16)
SECTION_CHAR == (16 * 10) \div 16

MAX_C_PER_LINE == (WIDTH \div SECTION_CHAR) - CeilDiv(2 * H_SPACER, SECTION_CHAR)

\* int(0.9 * WIDTH), int(0.05 * WIDTH)
GAUGE_WIDTH == (9 * WIDTH) \div 10
GAUGE_OFFSET == (5 * WIDTH) \div 100

\* font.size of the three ImageFont objects
FontSize(font) ==
    CASE font = "TITLE_FONT" -> TITLE_SIZE
      [] font = "SECTION_FONT" -> SECTION_SIZE
      [] font = "FOOTER_FONT" -> FOOTER_SIZE

\* ------------------------------------------------------ textwrap.wrap
Space == -1

ChunkLen(c) == IF c = Space THEN 1 ELSE c

\* ''.strip() == '' and ' '.strip() == ''
IsBlank(c) == c = Space \/ c = 0

\* TextWrapper._split: words and the whitespace between them
RECURSIVE Chunks(_)
Chunks(words) ==
    IF words = <<>> THEN <<>>
    ELSE IF Len(words) = 1 THEN <<words[1]>>
    ELSE <<words[1], Space>> \o Chunks(Tail(words))

\* the inner while loop of _wrap_chunks: chunks that fit on the current line
RECURSIVE Fill(_, _, _, _)
Fill(cur_line, cur_len, chunks, width) ==
    IF chunks # <<>> /\ cur_len + ChunkLen(Head(chunks)) <= width
    THEN Fill(Append(cur_line, Head(chunks)), cur_len + ChunkLen(Head(chunks)),
              Tail(chunks), width)
    ELSE [cur_line |-> cur_line, cur_len |-> cur_len, chunks |-> chunks]

\* TextWrapper._wrap_chunks with the defaults wrap() uses
\* (drop_whitespace, break_long_words)
RECURSIVE WrapChunks(_, _, _)
WrapChunks(chunks, lines, width) ==
    IF chunks = <<>> THEN lines
    ELSE
      LET c1 == IF Head(chunks) = Space /\ lines # <<>> THEN Tail(chunks) ELSE chunks
          f == Fill(<<>>, 0, c1, width)
          long == f.chunks # <<>> /\ ChunkLen(Head(f.chunks)) > width
          space_left == IF width < 1 THEN 1 ELSE width - f.cur_len
          line1 == IF long THEN Append(f.cur_line, space_left) ELSE f.cur_line
          rest == IF long
                  THEN <<Head(f.chunks) - space_left>> \o Tail(f.chunks)
                  ELSE f.chunks
          line2 == IF line1 # <<>> /\ IsBlank(line1[Len(line1)])
                   THEN SubSeq(line1, 1, Len(line1) - 1)
                   ELSE line1
      IN WrapChunks(rest, IF line2 # <<>> THEN Append(lines, line2) ELSE lines, width)

wrap(words, width) == WrapChunks(Chunks(words), <<>>, width)

\* ------------------------------------------------------ instructions
\* The text of an instruction: a wrapped line, str(number), the footer's
\* message, or None.
Line(chunks) == [kind |-> "line", chunks |-> chunks, n |-> 0]
Str(n) == [kind |-> "number", chunks |-> <<>>, n |-> n]
FooterMessage(dt) == [kind |-> "generated", chunks |-> <<>>, n |-> dt]
None == [kind |-> "none", chunks |-> <<>>, n |-> 0]

\* (command, coordinates, text, kwargs); width is the kwarg stroke_width of
\* a text and width of a line, 0 when the instruction has neither
Instruction(command, coordinates, text, fill, font, anchor, width) ==
    [command |-> command, coordinates |-> coordinates, text |-> text,
     fill |-> fill, font |-> font, anchor |-> anchor, width |-> width]

\* --------------------------------------------------------- sections
Has(section, key) == key \in section.keys

AllKeys == {"type", "value", "color", "range"}

TextSection(words, color) ==
    [keys |-> {"type", "value", "color"}, type |-> "text", words |-> words,
     value |-> 0, color |-> <<color>>, range |-> <<>>]

GaugeSection(value, range, colors) ==
    [keys |-> AllKeys, type |-> "gauge", words |-> <<>>,
     value |-> value, color |-> colors, range |-> range]

Without(section, key) == [section EXCEPT !.keys = @ \ {key}]

\* ------------------------------------------------- DashImage.sections_fit
\* What one iteration of the loop adds to space before the spacer, or the
\* KeyError it raises.
SectionSpace(section) ==
    IF ~Has(section, "type") THEN [raised |-> "KeyError", space |-> 0]
    ELSE IF section.type = "text"
    THEN IF ~Has(section, "value") THEN [raised |-> "KeyError", space |-> 0]
         ELSE [raised |-> "none",
               space |-> Len(wrap(section.words, MAX_C_PER_LINE))
                         * SECTION_SPACING[section.type]]
    ELSE IF section.type \notin DOMAIN SECTION_SPACING
    THEN [raised |-> "KeyError", space |-> 0]
    ELSE [raised |-> "none", space |-> SECTION_SPACING[section.type]]

RECURSIVE SpaceLoop(_, _, _)
SpaceLoop(secs, k, space) ==
    IF k > Len(secs) THEN [raised |-> "none", space |-> space]
    ELSE LET r == SectionSpace(secs[k])
         IN IF r.raised # "none" THEN r
            ELSE SpaceLoop(secs, k + 1, space + r.space + SPACER)

free_space(length) ==
    length - (TITLE_SIZE + SPACER) - (FOOTER_SIZE + 2 * SPACER) - (2 * V_SPACER)

\* Faulty variant of Fits: the comparison is written the wrong way round.
FitsReversed(free, space) == free < space

\* Faulty variant of Fits: a request that exactly fills the free space is accepted.
FitsOrFills(free, space) == free >= space

Fits(free, space) == free > space

sections_fit(secs, length) ==
    LET r == SpaceLoop(secs, 1, 0)
    IN IF r.raised # "none" THEN [raised |-> r.raised, result |-> FALSE]
       ELSE [raised |-> "none",
             result |-> Fits(free_space(length), r.space - SPACER)]

\* ------------------------------------------------------ SectionText
\* The loop over the wrapped lines: one text instruction per line, then
\* _next_y(font.size).
RECURSIVE TextLoop(_, _, _, _, _)
TextLoop(lines, yy, instructions, color, font) ==
    IF lines = <<>> THEN [y |-> yy, instructions |-> instructions]
    ELSE TextLoop(Tail(lines), yy + FontSize(font) + SPACER,
                  Append(instructions,
                         Instruction("text", <<H_SPACER, yy>>, Line(Head(lines)),
                                     color, font, "", 0)),
                  color, font)

SectionText(yy, words, color, font) ==
    TextLoop(wrap(words, MAX_C_PER_LINE),
             IF font = "TITLE_FONT" THEN yy + V_SPACER ELSE yy,
             <<>>, color, font)

\* ---------------------------------------------------- SectionFooter
FooterAnchor(length) == <<WIDTH - H_SPACER, length - V_SPACER>>

\* Faulty variant of SectionFooter: the footer is placed at the cursor.
SectionFooterAtCursor(yy, length, dt) ==
    [y |-> yy,
     instructions |-> <<Instruction("text", <<WIDTH - H_SPACER, yy>>, FooterMessage(dt),
                                    TEXT_COLOR, "FOOTER_FONT", "rs", 0)>>]

SectionFooter(yy, length, dt) ==
    [y |-> yy,
     instructions |-> <<Instruction("text", FooterAnchor(length), FooterMessage(dt),
                                    TEXT_COLOR, "FOOTER_FONT", "rs", 0)>>]

\* ----------------------------------------------------- SectionGauge
RECURSIVE Digits(_)
\* floor(log10(n)) + 1 for n >= 1
Digits(n) == IF n < 10 THEN 1 ELSE 1 + Digits(n \div 10)

get_number_half_width(number) ==
    LET symbols == IF number < 0 THEN 1 ELSE 0
        n == IF number < 0 THEN -number ELSE number
        digits == IF n >= 1 THEN Digits(n) ELSE 1
    IN CeilDiv((digits + symbols) * SECTION_CHAR, 2)

\* Faulty variant of get_gauge_offset: the quotient is rounded to nearest.
get_gauge_offset_rounded(value, end_a, end_b) ==
    (2 * (value - end_a) * GAUGE_WIDTH + (end_b - end_a)) \div (2 * (end_b - end_a))
    + GAUGE_OFFSET

\* Defined for end_a # end_b; the callers raise ZeroDivisionError otherwise.
get_gauge_offset(value, end_a, end_b) ==
    ((value - end_a) * GAUGE_WIDTH) \div (end_b - end_a) + GAUGE_OFFSET

SeqRange(s) == {s[k] : k \in 1..Len(s)}
MinOf(S) == CHOOSE x \in S : \A z \in S : x <= z
MaxOf(S) == CHOOSE x \in S : \A z \in S : z <= x

RECURSIVE SortAsc(_)
\* sorted() of a list without duplicates
SortAsc(S) == IF S = {} THEN <<>> ELSE <<MinOf(S)>> \o SortAsc(S \ {MinOf(S)})

IndexOf(s, x) == CHOOSE k \in 1..Len(s) : s[k] = x

\* s[j] for a Python index j >= -1 that is in range (-1 is the last element)
PyGet(s, j) == IF j < 0 THEN s[Len(s) + j + 1] ELSE s[j + 1]

\* created_gauge_values: the set of (value -> offset) entries
CreatedKeys(created) == {c.value : c \in created}
CreatedAt(created, v) == (CHOOSE c \in created : c.value = v).offset

\* Faulty variant of does_gauge_text_collide: the half-widths are left out.
does_gauge_text_collide_centres(value, offset, last_gauge_value, last_gauge_offset) ==
    offset < last_gauge_offset

does_gauge_text_collide(value, offset, last_gauge_value, last_gauge_offset) ==
    LET width == get_number_half_width(value)
        last_width == get_number_half_width(last_gauge_value)
    IN (offset - width) < (last_gauge_offset + last_width)

\* "True", "False", or "IndexError" when values[index + 1] is out of range
does_gauge_value_collide(value, offset, created) ==
    IF value \in CreatedKeys(created) THEN "True"
    ELSE
      LET width == get_number_half_width(value)
          values == SortAsc(CreatedKeys(created) \cup {value})
          index == IndexOf(values, value) - 1
      IN IF index + 1 >= Len(values) THEN "IndexError"
         ELSE
           LET below == PyGet(values, index - 1)
               above == PyGet(values, index + 1)
               below_width == get_number_half_width(below)
               above_width == get_number_half_width(above)
           IN IF (offset - width) < (CreatedAt(created, below) + below_width)
              THEN "True"
              ELSE IF (CreatedAt(created, above) - above_width) < (offset + width)
              THEN "True"
              ELSE "False"

\* The gauge label of a mark (create_gauge_value) and of the reading
MarkLabel(value, offset, yy, color) ==
    Instruction("text", <<offset, yy>>, Str(value), color, "SECTION_FONT", "mt", 0)

ValueLabel(value, offset, yy) ==
    Instruction("text", <<offset, yy>>, Str(value), TEXT_COLOR, "SECTION_FONT", "mt",
                GAUGE_VALUE_STROKE)

Rectangle(x0, y0, x1, y1, color) ==
    Instruction("rectangle", <<x0, y0, x1, y1>>, None, color, "", "", 0)

Needle(offset, y0, y1) ==
    Instruction("line", <<offset, y0, offset, y1>>, None, GAUGE_LINE_COLOR, "", "",
                GAUGE_LINE_WIDTH)

GaugeY0(yy) == yy + SECTION_SIZE + SPACER
GaugeY1(yy) == GaugeY0(yy) + SECTION_SIZE

\* zip(self.values, self.colors)
ZipLen(values, colors) == IF Len(values) < Len(colors) THEN Len(values) ELSE Len(colors)

NoGauge ==
    [y |-> 0, value |-> 0, values |-> <<>>, colors |-> <<>>, created |-> {},
     has_last |-> FALSE, last_gauge_value |-> 0, last_gauge_offset |-> 0,
     instructions |-> <<>>, k |-> 0, last_x0 |-> 0, end_a |-> 0, end_b |-> 0]

\* ------------------------------------------------------------ inputs
Hello == <<5>>
TwoLines == <<30, 30>>
LongWord == <<50>>

DenseGauge == GaugeSection(33, <<0, 1, 50, 100>>, <<"c1", "c2", "c3">>)

\* Sections that requests of up to MaxSections sections are built from.
CorePool ==
    { TextSection(Hello, TEXT_COLOR),
      TextSection(TwoLines, "c1"),
      DenseGauge,
      Without(DenseGauge, "value"),
      [TextSection(Hello, "c1") EXCEPT !.type = "image"] }

\* Further sections, for requests of up to MaxVaried sections.
VariedPool ==
    { TextSection(<<>>, "c1"),
      TextSection(LongWord, "c1"),
      Without(TextSection(Hello, "c1"), "value"),
      Without(TextSection(Hello, "c1"), "color"),
      Without(TextSection(Hello, "c1"), "type"),
      Without(DenseGauge, "color"),
      Without(DenseGauge, "range"),
      GaugeSection(20, <<50, 10, 30>>, <<"c1", "c2">>),
      GaugeSection(100, <<0, 99, 100>>, <<"c1", "c2">>),
      GaugeSection(5, <<5, 5>>, <<"c1">>),
      GaugeSection(50, <<0, 50, 100>>, <<"c1", "c2">>),
      GaugeSection(49, <<0, 50, 100>>, <<"c1", "c2">>),
      GaugeSection(33, <<0, 50, 100>>, <<"c1">>),
      GaugeSection(5, <<-10, 0, 10>>, <<"c1", "c2">>),
      GaugeSection(5, <<3, 10>>, <<"c1">>) }

SectionPool == CorePool \cup VariedPool

SeqsUpTo(S, n) == UNION {[1..k -> S] : k \in 0..n}

Requests == SeqsUpTo(CorePool, MaxSections) \cup SeqsUpTo(SectionPool, MaxVaried)

Titles == {<<1>>, TwoLines}

\* config.LENGTH: the default canvas, and one that two sections can fill
Lengths == {84, 234}

\* pendulum.now() as the footer reads it
Clock == {1, 2}

\* ------------------------------------------------------------- state
VARIABLES
    LENGTH,     \* config.LENGTH
    module,     \* DashImage.module
    title,      \* DashImage.title
    sections,   \* DashImage.sections (the request's list, shared with it)
    y,          \* DashImage.y
    pc,         \* position in create(): "new", "title", "sections", "gauge",
                \* "done", "raised"
    i,          \* index of the section the loop of create() is at
    loc,        \* the locals instructions and y of create(), once bound
    g,          \* the SectionGauge under construction
    drawn,      \* instructions rendered onto the image, each with the loop
                \* position that rendered it (0 title, k section k, n+1 footer)
    saved,      \* im.save() was reached by this call
    exc,        \* the exception that left create()
    calls,      \* which call of create() this is (1 for the first)
    request0,   \* history: module, title, sections as constructed
    firstRun,   \* history: the section instructions of the first completed call
    QUIET_START,  \* config.QUIET_START
    QUIET_END,    \* config.QUIET_END
    now,        \* setup_quiet_hours(): the instant of the current iteration
    next_hour,  \* setup_quiet_hours(): the computed wake-up
    img,        \* setup_quiet_hours(): the local img is bound
    file,       \* the quiet-hours image file exists
    sched_pc,   \* "off", "iterate" (top of the loop), "sleep", "raised"
    sched_exc   \* the exception that left setup_quiet_hours()

image_vars == <<LENGTH, module, title, sections, y, pc, i, loc, g, drawn, saved, exc,
                calls, request0, firstRun>>

quiet_vars == <<QUIET_START, QUIET_END, now, next_hour, img, file, sched_pc, sched_exc>>

vars == <<LENGTH, module, title, sections, y, pc, i, loc, g, drawn, saved, exc,
          calls, request0, firstRun,
          QUIET_START, QUIET_END, now, next_hour, img, file, sched_pc, sched_exc>>

NoExc == [name |-> "none", n_sections |-> 0]
Raise(name) == [name |-> name, n_sections |-> 0]
TooManySections(n_sections) == [name |-> "TooManySections", n_sections |-> n_sections]

Unbound == [bound |-> FALSE, instructions |-> <<>>, y |-> 0]
Bound(instructions, yy) == [bound |-> TRUE, instructions |-> instructions, y |-> yy]

\* DashImage.render_instructions, called at loop position src
Render(instructions, src) ==
    drawn \o [k \in 1..Len(instructions) |-> [src |-> src, ins |-> instructions[k]]]

\* Quiet hours are not configured: setup_quiet_hours() returns at once.
QuietHoursOff ==
    /\ QUIET_START = 0
    /\ QUIET_END = 0
    /\ now = 0
    /\ next_hour = 0
    /\ img = FALSE
    /\ file = FALSE
    /\ sched_pc = "off"
    /\ sched_exc = "none"

\* DashImage(module, title, sections); y defaults to 0
Init ==
    /\ LENGTH \in Lengths
    /\ module = "m1"
    /\ title \in Titles
    /\ sections \in Requests
    /\ y = 0
    /\ pc = "new"
    /\ i = 0
    /\ loc = Unbound
    /\ g = NoGauge
    /\ drawn = <<>>
    /\ saved = FALSE
    /\ exc = NoExc
    /\ calls = 1
    /\ request0 = [module |-> module, title |-> title, sections |-> sections]
    /\ firstRun = <<>>
    /\ QuietHoursOff

\* Faulty variant of CapacityCheck: the header is rendered before the check decides.
CapacityCheckAfterHeader ==
    /\ pc = "new"
    /\ LET fit == sections_fit(sections, LENGTH)
           header == SectionText(y, title, TEXT_COLOR, "TITLE_FONT")
       IN IF fit.raised # "none"
          THEN pc' = "raised" /\ exc' = Raise(fit.raised) /\ drawn' = drawn
          ELSE IF ~fit.result
          THEN /\ pc' = "raised"
               /\ exc' = TooManySections(Len(sections))
               /\ drawn' = Render(header.instructions, 0)
          ELSE pc' = "title" /\ exc' = exc /\ drawn' = drawn
    /\ UNCHANGED <<LENGTH, module, title, sections, y, i, loc, g, saved,
                   calls, request0, firstRun>>
    /\ UNCHANGED quiet_vars

\* create(): the capacity check
CapacityCheck ==
    /\ pc = "new"
    /\ LET fit == sections_fit(sections, LENGTH)
       IN IF fit.raised # "none"
          THEN pc' = "raised" /\ exc' = Raise(fit.raised)
          ELSE IF ~fit.result
          THEN pc' = "raised" /\ exc' = TooManySections(Len(sections))
          ELSE pc' = "title" /\ exc' = exc
    /\ UNCHANGED <<LENGTH, module, title, sections, y, i, loc, g, drawn, saved,
                   calls, request0, firstRun>>
    /\ UNCHANGED quiet_vars

\* create(): Image.new, the header
RenderTitle ==
    /\ pc = "title"
    /\ LET header == SectionText(y, title, TEXT_COLOR, "TITLE_FONT")
       IN /\ drawn' = Render(header.instructions, 0)
          /\ y' = header.y
    /\ pc' = "sections"
    /\ i' = 1
    /\ UNCHANGED <<LENGTH, module, title, sections, loc, g, saved, exc, calls,
                   request0, firstRun>>
    /\ UNCHANGED quiet_vars

\* SectionGauge.__post_init__ up to the loop over the marks: the end marks,
\* and the default colour inserted into the list the request holds.
GaugeStart(yy, value, values, colors) ==
    [y |-> yy, value |-> value, values |-> values,
     colors |-> <<TEXT_COLOR>> \o colors, created |-> {},
     has_last |-> FALSE, last_gauge_value |-> 0, last_gauge_offset |-> 0,
     instructions |-> <<>>, k |-> 1, last_x0 |-> GAUGE_OFFSET,
     end_a |-> MinOf(SeqRange(values)), end_b |-> MaxOf(SeqRange(values))]

\* The KeyError handler and the NameError handler of the loop: continue
Skip ==
    /\ i' = i + 1
    /\ UNCHANGED <<pc, sections, y, loc, g, drawn, exc>>

\* create(): one iteration of the loop over the sections, for a gauge up
\* to the start of its loop over the marks
RenderSection ==
    /\ pc = "sections"
    /\ i <= Len(sections)
    /\ LET section == sections[i]
       IN IF ~Has(section, "type") \/ ~Has(section, "value") \/ ~Has(section, "color")
          THEN Skip
          ELSE IF section.type = "text"
          THEN LET text == SectionText(y, section.words, section.color[1], "SECTION_FONT")
               IN /\ drawn' = Render(text.instructions, i)
                  /\ y' = text.y
                  /\ loc' = Bound(text.instructions, text.y)
                  /\ i' = i + 1
                  /\ UNCHANGED <<pc, sections, g, exc>>
          ELSE IF section.type = "gauge"
          THEN IF ~Has(section, "range")
               THEN Skip
               ELSE IF section.range = <<>>
               THEN /\ pc' = "raised"
                    /\ exc' = Raise("IndexError")
                    /\ UNCHANGED <<sections, y, i, loc, g, drawn>>
               ELSE /\ g' = GaugeStart(y, section.value, section.range, section.color)
                    /\ sections' = [sections EXCEPT ![i].color = g'.colors]
                    /\ pc' = "gauge"
                    /\ UNCHANGED <<y, i, loc, drawn, exc>>
          ELSE IF ~loc.bound
          THEN Skip
          ELSE /\ drawn' = Render(loc.instructions, i)
               /\ y' = loc.y
               /\ i' = i + 1
               /\ UNCHANGED <<pc, sections, loc, g, exc>>
    /\ UNCHANGED <<LENGTH, module, title, saved, calls, request0, firstRun>>
    /\ UNCHANGED quiet_vars

\* SectionGauge.__post_init__: one iteration of the loop over
\* zip(self.values, self.colors)
GaugeMark ==
    /\ pc = "gauge"
    /\ g.k <= ZipLen(g.values, g.colors)
    /\ IF g.end_a = g.end_b
       THEN /\ pc' = "raised"
            /\ exc' = Raise("ZeroDivisionError")
            /\ g' = g
       ELSE LET val == g.values[g.k]
                color == g.colors[g.k]
                offset == get_gauge_offset(val, g.end_a, g.end_b)
                place == \/ ~g.has_last
                         \/ ~does_gauge_text_collide(val, offset, g.last_gauge_value,
                                                     g.last_gauge_offset)
                labelled == IF place
                            THEN Append(g.instructions, MarkLabel(val, offset, g.y, color))
                            ELSE g.instructions
            IN /\ g' = [g EXCEPT
                          !.instructions =
                              Append(labelled,
                                     Rectangle(g.last_x0, GaugeY0(g.y), offset,
                                               GaugeY1(g.y), color)),
                          !.has_last = @ \/ place,
                          !.last_gauge_value = IF place THEN val ELSE @,
                          !.last_gauge_offset = IF place THEN offset ELSE @,
                          !.created = IF place
                                      THEN {c \in @ : c.value # val}
                                           \cup {[value |-> val, offset |-> offset]}
                                      ELSE @,
                          !.last_x0 = offset,
                          !.k = @ + 1]
               /\ UNCHANGED <<pc, exc>>
    /\ UNCHANGED <<LENGTH, module, title, sections, y, i, loc, drawn, saved, calls,
                   request0, firstRun>>
    /\ UNCHANGED quiet_vars

\* SectionGauge.__post_init__ after the loop: the reading's label and needle,
\* _next_y; then create() renders the gauge's instructions and takes its y
GaugeValue ==
    /\ pc = "gauge"
    /\ g.k > ZipLen(g.values, g.colors)
    /\ IF g.end_a = g.end_b
       THEN /\ pc' = "raised"
            /\ exc' = Raise("ZeroDivisionError")
            /\ UNCHANGED <<y, i, loc, g, drawn>>
       ELSE LET offset == get_gauge_offset(g.value, g.end_a, g.end_b)
                collide == does_gauge_value_collide(g.value, offset, g.created)
                labelled == IF collide = "False"
                            THEN Append(g.instructions, ValueLabel(g.value, offset, g.y))
                            ELSE g.instructions
                instructions == Append(labelled,
                                       Needle(offset, GaugeY0(g.y), GaugeY1(g.y)))
                gy == g.y + (2 * SECTION_SIZE + SPACER) + SPACER
            IN IF collide = "IndexError"
               THEN /\ pc' = "raised"
                    /\ exc' = Raise("IndexError")
                    /\ UNCHANGED <<y, i, loc, g, drawn>>
               ELSE /\ g' = [g EXCEPT !.instructions = instructions, !.y = gy]
                    /\ drawn' = Render(instructions, i)
                    /\ y' = gy
                    /\ loc' = Bound(instructions, gy)
                    /\ i' = i + 1
                    /\ pc' = "sections"
                    /\ exc' = exc
    /\ UNCHANGED <<LENGTH, module, title, sections, saved, calls, request0, firstRun>>
    /\ UNCHANGED quiet_vars

\* The section instructions among the rendered ones
SectionInstructions(rendered, n) ==
    SelectSeq(rendered, LAMBDA d : d.src \in 1..n)

\* create(): the footer, and im.save()
RenderFooter ==
    /\ pc = "sections"
    /\ i > Len(sections)
    /\ \E dt \in Clock :
         drawn' = Render(SectionFooter(y, LENGTH, dt).instructions, Len(sections) + 1)
    /\ saved' = TRUE
    /\ pc' = "done"
    /\ firstRun' = IF calls = 1 THEN SectionInstructions(drawn, Len(sections))
                   ELSE firstRun
    /\ UNCHANGED <<LENGTH, module, title, sections, y, i, loc, g, exc, calls, request0>>
    /\ UNCHANGED quiet_vars

\* create() is called again on the same DashImage
CreateAgain ==
    /\ pc \in {"done", "raised"}
    /\ calls < MaxCreates
    /\ calls' = calls + 1
    /\ pc' = "new"
    /\ i' = 0
    /\ loc' = Unbound
    /\ g' = NoGauge
    /\ drawn' = <<>>
    /\ saved' = FALSE
    /\ exc' = NoExc
    /\ UNCHANGED <<LENGTH, module, title, sections, y, request0, firstRun>>
    /\ UNCHANGED quiet_vars

Next ==
    \/ CapacityCheck
    \/ RenderTitle
    \/ RenderSection
    \/ GaugeMark
    \/ GaugeValue
    \/ RenderFooter
    \/ CreateAgain

Spec == Init /\ [][Next]_vars

\* ------------------------------------------------------- quiet hours
\* An instant is a whole number with two instants per hour: 2 * h is h:00
\* sharp, 2 * h + 1 is any instant strictly inside that hour.
Instant(day, hour, past) == 2 * (24 * day + hour) + past
HourOf(t) == (t \div 2) % 24
DayOf(t) == t \div 48
OnTheHour(t) == t % 2 = 0

Hours == 0..23

\* in_quiet_hours(), for the hour of pendulum.now()
in_quiet_hours(hour) ==
    IF QUIET_START > QUIET_END
    THEN hour >= QUIET_START \/ hour < QUIET_END
    ELSE hour \in QUIET_START..(QUIET_END - 1)

\* setup_quiet_hours(): hour and delta (in days) of the next wake-up
NextHour(t) ==
    LET start_diff == QUIET_START - HourOf(t)
        end_diff == QUIET_END - HourOf(t)
    IN IF start_diff < 0 /\ end_diff < 0
       THEN [hour |-> QUIET_START, delta |-> 1]
       ELSE IF start_diff <= 0
       THEN [hour |-> QUIET_END, delta |-> IF QUIET_START > QUIET_END THEN 1 ELSE 0]
       ELSE [hour |-> QUIET_START, delta |-> 0]

\* pendulum.datetime(now.year, now.month, now.day, hour, 0) + delta
NextHourInstant(t) == Instant(DayOf(t) + NextHour(t).delta, NextHour(t).hour, 0)

\* sleep(diff.seconds): the instants the loop may wake at.  diff.seconds is
\* the whole seconds of the time-of-day part of diff, so the sleep ends up to
\* a second before the wake-up when now is not on a whole second, and any
\* time after it.
WakeTimes(t, wake) ==
    LET target == t + ((wake - t) % 48)
    IN {target, target + 1} \cup (IF OnTheHour(t) THEN {} ELSE {target - 1})

\* setup_quiet_hours() with quiet hours configured, at the top of its loop
QuietInit ==
    /\ QUIET_START \in Hours
    /\ QUIET_END \in Hours
    /\ QUIET_START # QUIET_END
    /\ now \in {Instant(0, h, past) : h \in Hours, past \in {0, 1}}
    /\ next_hour = 0
    /\ img = FALSE
    /\ file = FALSE
    /\ sched_pc = "iterate"
    /\ sched_exc = "none"
    /\ LENGTH = 234
    /\ module = "quiet_hours"
    /\ title = <<5, 5>>
    /\ sections = <<>>
    /\ y = 0
    /\ pc = "new"
    /\ i = 0
    /\ loc = Unbound
    /\ g = NoGauge
    /\ drawn = <<>>
    /\ saved = FALSE
    /\ exc = NoExc
    /\ calls = 1
    /\ request0 = [module |-> module, title |-> title, sections |-> sections]
    /\ firstRun = <<>>

\* setup_quiet_hours(): one iteration of the loop up to sleep().  The image
\* is created (the file is written) inside quiet hours; outside, img.delete()
\* unlinks the file, which fails when there is none, and an unbound img is
\* the NameError the loop passes over.
Iterate ==
    /\ sched_pc = "iterate"
    /\ LET quiet == in_quiet_hours(HourOf(now))
           wake == NextHourInstant(now)
       IN IF ~quiet /\ img /\ ~file
          THEN /\ sched_pc' = "raised"
               /\ sched_exc' = "FileNotFoundError"
               /\ UNCHANGED <<img, file, next_hour>>
          ELSE /\ img' = (img \/ quiet)
               /\ file' = IF quiet THEN TRUE ELSE IF img THEN FALSE ELSE file
               /\ next_hour' = wake
               /\ IF wake < now
                  THEN sched_pc' = "raised" /\ sched_exc' = "ValueError"
                  ELSE sched_pc' = "sleep" /\ sched_exc' = sched_exc
    /\ UNCHANGED <<QUIET_START, QUIET_END, now>>
    /\ UNCHANGED image_vars

\* sleep(diff.seconds) returns
Wake ==
    /\ sched_pc = "sleep"
    /\ \E t \in WakeTimes(now, next_hour) :
         /\ DayOf(t) <= MaxDays
         /\ now' = t
    /\ sched_pc' = "iterate"
    /\ UNCHANGED <<QUIET_START, QUIET_END, next_hour, img, file, sched_exc>>
    /\ UNCHANGED image_vars

QuietNext ==
    \/ Iterate
    \/ Wake

SpecQuiet == QuietInit /\ [][QuietNext]_vars

\* ------------------------------------------------------------ claims
\* A section with a known type and every key that type requires.
WellFormed(section) ==
    /\ Has(section, "type") /\ Has(section, "value") /\ Has(section, "color")
    /\ \/ section.type = "text"
       \/ section.type = "gauge" /\ Has(section, "range")

AllWellFormed == \A k \in 1..Len(sections) : WellFormed(sections[k])

\* C1: the capacity check runs first.  Whenever sections_fit() is false,
\* create() has raised TooManySections carrying len(sections) with nothing
\* drawn and no file saved; whenever it is true, TooManySections is never
\* raised.
C1_CapacityCheckFirst ==
    LET fit == sections_fit(sections, LENGTH)
    IN /\ (pc # "new" /\ fit.raised = "none" /\ ~fit.result)
            => /\ pc = "raised"
               /\ exc = [name |-> "TooManySections", n_sections |-> Len(sections)]
       /\ exc.name = "TooManySections" => drawn = <<>> /\ ~saved
       /\ (fit.raised = "none" /\ fit.result) => exc.name # "TooManySections"

C1_Witness ==
    /\ pc = "raised"
    /\ exc = [name |-> "TooManySections", n_sections |-> 2]
    /\ Len(sections) = 2

RECURSIVE C2_Extents(_)
C2_Extents(secs) ==
    IF secs = <<>> THEN 0
    ELSE (IF Head(secs).type = "text"
          THEN Len(wrap(Head(secs).words, MAX_C_PER_LINE))
          ELSE 2)
         + C2_Extents(Tail(secs))

C2_Required == C2_Extents(sections) + SPACER * (Len(sections) - 1)

C2_FreeSpace ==
    LENGTH - (TITLE_SIZE + SPACER) - (FOOTER_SIZE + 2 * SPACER) - 2 * V_SPACER

\* C2: for well-formed sections, sections_fit() is true iff free_space is
\* greater than the required space (line counts and 2 per gauge, plus a
\* spacer between sections); equal is not fitting, and create() raises
\* TooManySections exactly when it is false.
C2_SectionsFit ==
    AllWellFormed =>
        /\ sections_fit(sections, LENGTH)
             = [raised |-> "none", result |-> C2_FreeSpace > C2_Required]
        /\ pc # "new" => (exc.name = "TooManySections" <=> ~(C2_FreeSpace > C2_Required))

C2_Witness ==
    /\ AllWellFormed
    /\ C2_FreeSpace = C2_Required
    /\ pc = "raised"
    /\ exc.name = "TooManySections"

\* The instructions rendered at loop position k.
DrawnBy(k) == SelectSeq(drawn, LAMBDA d : d.src = k)

\* The iteration of create()'s loop for section k has ended normally.
Processed(k) == pc \in {"sections", "gauge", "done", "raised"} /\ k < i

\* An exception raised while building the gauge of section k left create().
FailedAt(k) ==
    pc = "raised" /\ exc.name \in {"IndexError", "ZeroDivisionError"} /\ k = i

\* C3: skip-and-continue.  A section lacking a key its type requires, or
\* with a missing or unknown type, is never fatal, gets no instructions, and
\* every other section is still rendered before the footer.
C3_SkipAndContinue ==
    /\ exc.name # "KeyError"
    /\ \A a \in 1..Len(drawn) :
         drawn[a].src \in 1..Len(sections) => WellFormed(sections[drawn[a].src])
    /\ pc = "done" =>
         \A k \in 1..Len(sections) :
           (/\ WellFormed(sections[k])
            /\ \/ sections[k].type = "gauge"
               \/ wrap(sections[k].words, MAX_C_PER_LINE) # <<>>)
           => DrawnBy(k) # <<>>

\* C4: a request that renders to completion is rendered title first, then
\* the sections in input order, then the footer, which is last and anchored
\* at (WIDTH - H_SPACER, LENGTH - V_SPACER) whatever the cursor; title "T"
\* with one text section "hello" gives exactly title, "hello", footer.
C4_RenderOrder ==
    /\ \A a, b \in 1..Len(drawn) : a < b => drawn[a].src <= drawn[b].src
    /\ \A a \in 1..Len(drawn) :
         /\ drawn[a].src = 0 <=> drawn[a].ins.font = "TITLE_FONT"
         /\ drawn[a].src = Len(sections) + 1 <=> drawn[a].ins.font = "FOOTER_FONT"
    /\ pc = "done" =>
         /\ Len(DrawnBy(0)) = Len(wrap(title, MAX_C_PER_LINE))
         /\ Len(DrawnBy(Len(sections) + 1)) = 1
         /\ drawn[Len(drawn)].ins.font = "FOOTER_FONT"
         /\ drawn[Len(drawn)].ins.command = "text"
         /\ drawn[Len(drawn)].ins.coordinates = <<WIDTH - H_SPACER, LENGTH - V_SPACER>>
    /\ (pc = "done" /\ title = <<1>> /\ sections = <<TextSection(Hello, TEXT_COLOR)>>) =>
         /\ Len(drawn) = 3
         /\ drawn[1].ins.command = "text" /\ drawn[1].ins.text = Line(<<1>>)
         /\ drawn[1].src = 0
         /\ drawn[2].ins.command = "text" /\ drawn[2].ins.text = Line(Hello)
         /\ drawn[2].ins.font = "SECTION_FONT" /\ drawn[2].src = 1
         /\ drawn[3].ins.command = "text" /\ drawn[3].ins.text.kind = "generated"
         /\ drawn[3].src = 2

\* The end-to-end example, rendered a second time so that the cursor the
\* footer is built with differs from the first call's.
C4_Witness ==
    /\ pc = "done"
    /\ calls = 2
    /\ title = <<1>>
    /\ sections = <<TextSection(Hello, TEXT_COLOR)>>
    /\ Len(drawn) = 3

C5_Rectangles == SelectSeq(g.instructions, LAMBDA ins : ins.command = "rectangle")

\* The k-th smallest element of the sequence s, duplicates counted.
KthSmallest(s, k) ==
    CHOOSE v \in SeqRange(s) :
      /\ Cardinality({j \in DOMAIN s : s[j] < v}) < k
      /\ k <= Cardinality({j \in DOMAIN s : s[j] <= v})

\* C5: ordering invariant.  Whatever order the marks arrive in, the k-th
\* bar segment ends at the offset of the k-th smallest mark and segment
\* boundaries never decrease.
C5_AscendingSegments ==
    g.end_a < g.end_b =>
      \A k \in 1..Len(C5_Rectangles) :
        /\ C5_Rectangles[k].coordinates[3]
             = get_gauge_offset(KthSmallest(g.values, k), g.end_a, g.end_b)
        /\ k > 1 => C5_Rectangles[k - 1].coordinates[3] <= C5_Rectangles[k].coordinates[3]

\* The construction of the gauge g (lo < hi) has ended, normally or not.
GaugeEnded ==
    g.end_a < g.end_b /\ g.k > ZipLen(g.values, g.colors) /\ pc # "gauge"

Abs(n) == IF n < 0 THEN -n ELSE n

\* Two labels at offsets o1, o2 with half-widths w1, w2 overlap.
Collide(o1, w1, o2, w2) == Abs(o1 - o2) < w1 + w2

\* The placed mark label nearest to v from below (or at v), and from above.
NearestBelow(created, v) ==
    {c \in created : c.value <= v /\ \A d \in created : d.value <= v => d.value <= c.value}
NearestAbove(created, v) ==
    {c \in created : c.value > v /\ \A d \in created : d.value > v => c.value <= d.value}

C6_ValueCollides ==
    LET offset == get_gauge_offset(g.value, g.end_a, g.end_b)
        width == get_number_half_width(g.value)
    IN \E c \in NearestBelow(g.created, g.value) \cup NearestAbove(g.created, g.value) :
         Collide(offset, width, c.offset, get_number_half_width(c.value))

\* C6: for a gauge with lo < hi the needle is emitted exactly once at the
\* reading's offset in all cases, and the reading's label is emitted iff the
\* reading collides with neither the nearest placed mark label below it nor
\* the nearest placed one above it.
C6_NeedleAlways ==
    GaugeEnded =>
      LET offset == get_gauge_offset(g.value, g.end_a, g.end_b)
          needles == SelectSeq(g.instructions, LAMBDA ins : ins.command = "line")
          labels == SelectSeq(g.instructions,
                              LAMBDA ins : ins.command = "text"
                                           /\ ins.width = GAUGE_VALUE_STROKE)
      IN /\ Len(needles) = 1
         /\ needles[1].coordinates[1] = offset
         /\ Len(labels) = (IF C6_ValueCollides THEN 0 ELSE 1)

C7_Rectangles(k) == SelectSeq(DrawnBy(k), LAMBDA d : d.ins.command = "rectangle")

\* C7: label suppression does not affect bar geometry.  Every gauge whose
\* colour sequence has len(marks) - 1 entries gets exactly len(marks)
\* rectangles, the j-th from the previous segment's end (GAUGE_OFFSET for
\* the first) to the offset of the j-th walked mark.
C7_BarGeometry ==
    \A k \in 1..Len(sections) :
      LET section == request0.sections[k]
          marks == section.range
          lo == MinOf(SeqRange(marks))
          hi == MaxOf(SeqRange(marks))
          r == C7_Rectangles(k)
      IN (/\ calls = 1
          /\ WellFormed(section) /\ section.type = "gauge"
          /\ Len(section.color) = Len(marks) - 1
          /\ Processed(k) \/ FailedAt(k))
         => /\ Len(r) = Len(marks)
            /\ lo < hi
            /\ \A j \in 1..Len(r) :
                 /\ r[j].ins.coordinates[1]
                      = (IF j = 1 THEN GAUGE_OFFSET ELSE r[j - 1].ins.coordinates[3])
                 /\ r[j].ins.coordinates[3] = get_gauge_offset(marks[j], lo, hi)

\* offset is GAUGE_OFFSET plus the quotient of (v - lo) * GAUGE_WIDTH by
\* hi - lo, truncated: the one q with q * (hi - lo) <= (v - lo) * GAUGE_WIDTH
\* < (q + 1) * (hi - lo).
C8_Truncated(offset, v, lo, hi) ==
    LET q == offset - GAUGE_OFFSET
    IN /\ q * (hi - lo) <= (v - lo) * GAUGE_WIDTH
       /\ (v - lo) * GAUGE_WIDTH < (q + 1) * (hi - lo)

\* C8: integer-offset exactness.  For lo < hi and lo <= v <= hi the offset
\* is GAUGE_OFFSET plus the truncated quotient of (v - lo) * GAUGE_WIDTH by
\* hi - lo: 240 for 50 and 166 for 33 on 0..100 with width 432 and margin
\* 24; lo maps to GAUGE_OFFSET and hi to GAUGE_OFFSET + GAUGE_WIDTH.  The
\* offsets stored and drawn by the gauge are these.
C8_IntegerOffset ==
    /\ GAUGE_WIDTH = 432 /\ GAUGE_OFFSET = 24
    /\ get_gauge_offset(50, 0, 100) = 240
    /\ get_gauge_offset(33, 0, 100) = 166
    /\ g.end_a < g.end_b =>
         /\ \A v \in g.end_a..g.end_b :
              C8_Truncated(get_gauge_offset(v, g.end_a, g.end_b), v, g.end_a, g.end_b)
         /\ get_gauge_offset(g.end_a, g.end_a, g.end_b) = GAUGE_OFFSET
         /\ get_gauge_offset(g.end_b, g.end_a, g.end_b) = GAUGE_OFFSET + GAUGE_WIDTH
         /\ \A c \in g.created :
              C8_Truncated(c.offset, c.value, g.end_a, g.end_b)
         /\ \A k \in 1..Len(g.instructions) :
              (g.instructions[k].command = "line"
               /\ g.end_a <= g.value /\ g.value <= g.end_b)
              => C8_Truncated(g.instructions[k].coordinates[1], g.value,
                              g.end_a, g.end_b)

\* The gauge over 0..100 reading 33 has been rendered: needle at 166, the
\* label of 50 at 240.
C8_Witness ==
    /\ pc = "done"
    /\ g.end_a = 0 /\ g.end_b = 100 /\ g.value = 33
    /\ \E a \in 1..Len(drawn) :
         drawn[a].ins.command = "line" /\ drawn[a].ins.coordinates[1] = 166
    /\ \E a \in 1..Len(drawn) :
         /\ drawn[a].ins.command = "text" /\ drawn[a].ins.text = Str(50)
         /\ drawn[a].ins.coordinates[1] = 240

\* C9: a gauge whose marks are all equal never makes create() fail with a
\* division by zero.
C9_NoDivisionByZero == exc.name # "ZeroDivisionError"

\* C10: a render does not modify its request, and a second create() gives
\* the same section instructions as the first.
C10_RequestUnchanged ==
    /\ pc \in {"done", "raised"} =>
         /\ module = request0.module
         /\ title = request0.title
         /\ sections = request0.sections
    /\ (pc = "done" /\ calls = 2) =>
         SectionInstructions(drawn, Len(sections)) = firstRun

\* The sections a request may be extended by: text of zero, one or two
\* lines, gauges.
C11_Extensions == {s \in SectionPool : WellFormed(s)}

\* C11: capacity monotonicity.  If sections_fit() is false for the sections,
\* it is false for the sections followed by any further section; in
\* particular when the required space equals free_space.
C11_CapacityMonotone ==
    \A s \in C11_Extensions :
      LET before == sections_fit(sections, LENGTH)
          after == sections_fit(Append(sections, s), LENGTH)
      IN /\ (before.raised = "none" /\ ~before.result)
              => (after.raised = "none" /\ ~after.result)
         /\ (AllWellFormed /\ C2_FreeSpace = C2_Required)
              => (after.raised = "none" /\ ~after.result)

\* create() has rejected a request that exactly fills the free space, and
\* the request followed by a text of no line is rejected too.
C11_Witness ==
    /\ pc = "raised"
    /\ exc.name = "TooManySections"
    /\ AllWellFormed
    /\ C2_FreeSpace = C2_Required
    /\ TextSection(<<>>, "c1") \in C11_Extensions
    /\ ~sections_fit(Append(sections, TextSection(<<>>, "c1")), LENGTH).result

\* The [value, offset] of the mark labels among a gauge's instructions, in
\* the order they were placed.
MarkLabelsOf(instructions) ==
    LET labels == SelectSeq(instructions,
                            LAMBDA ins : ins.command = "text" /\ ins.width = 0)
    IN [j \in 1..Len(labels) |->
          [value |-> labels[j].text.n, offset |-> labels[j].coordinates[1]]]

\* The labels the stated rule places while walking the first k marks: a mark
\* is labelled iff no label is placed yet or it does not overlap the most
\* recently placed one.
RECURSIVE C12_Labelled(_, _, _, _)
C12_Labelled(values, lo, hi, k) ==
    IF k = 0 THEN <<>>
    ELSE LET before == C12_Labelled(values, lo, hi, k - 1)
             offset == get_gauge_offset(values[k], lo, hi)
             last == before[Len(before)]
         IN IF \/ before = <<>>
               \/ ~Collide(offset, get_number_half_width(values[k]),
                           last.offset, get_number_half_width(last.value))
            THEN Append(before, [value |-> values[k], offset |-> offset])
            ELSE before

\* C12: mark-label decision.  While a gauge's marks are walked, in any input
\* order, the labels drawn so far are those of the rule "labelled iff no
\* label is placed yet or no overlap with the most recently placed label",
\* where two labels overlap iff |o1 - o2| < w1 + w2.
C12_MarkLabelDecision ==
    (pc = "gauge" /\ g.end_a < g.end_b)
        => MarkLabelsOf(g.instructions)
             = C12_Labelled(g.values, g.end_a, g.end_b, g.k - 1)

\* The y coordinates an instruction draws at.
YsOf(ins) ==
    IF Len(ins.coordinates) = 4
    THEN {ins.coordinates[2], ins.coordinates[4]}
    ELSE {ins.coordinates[2]}

\* C13: the capacity check is sound for the layout it gates.  For a request
\* of well-formed sections for which sections_fit() is true, every title and
\* section instruction of create() is drawn above the bottom of the canvas,
\* and every section instruction above the footer's row.
C13_WithinCanvas ==
    (/\ calls = 1
     /\ AllWellFormed
     /\ sections_fit(sections, LENGTH).raised = "none"
     /\ sections_fit(sections, LENGTH).result)
        => \A j \in 1..Len(drawn) :
             drawn[j].src <= Len(sections)
               => \A yy \in YsOf(drawn[j].ins) :
                    /\ yy < LENGTH
                    /\ drawn[j].src >= 1 => yy < FooterAnchor(LENGTH)[2]

\* The numeric labels (mark labels and the reading's label) among
\* instructions, as [offset, width] with width the half-width of the number.
NumberLabelsOf(instructions) ==
    LET labels == SelectSeq(instructions,
                            LAMBDA ins : ins.command = "text" /\ ins.text.kind = "number")
    IN [j \in 1..Len(labels) |->
          [offset |-> labels[j].coordinates[1],
           width |-> get_number_half_width(labels[j].text.n)]]

NoOverlap(labels) ==
    \A a, b \in 1..Len(labels) :
      (a # b /\ labels[a].offset <= labels[b].offset)
        => labels[a].offset + labels[a].width <= labels[b].offset - labels[b].width

C15_Inside(t) ==
    ((HourOf(t) + 24 - QUIET_START) % 24) < ((QUIET_END + 24 - QUIET_START) % 24)

\* The first quiet-hours boundary strictly after t: QUIET_END:00 when t is
\* inside quiet hours, QUIET_START:00 otherwise.
C15_FirstBoundaryAfter(t) ==
    LET hour == IF C15_Inside(t) THEN QUIET_END ELSE QUIET_START
        IsBoundary(n) == OnTheHour(n) /\ HourOf(n) = hour
    IN CHOOSE n \in (t + 1)..(t + 48) :
         IsBoundary(n) /\ \A m \in (t + 1)..(n - 1) : ~IsBoundary(m)

\* C15: quiet-hours scheduler.  For every valid configuration and every
\* instant an iteration of setup_quiet_hours runs at, the computed wake-up is
\* the first quiet-hours boundary strictly after now, so it is never earlier
\* than now, ValueError is never raised, and the quiet-hours image exists
\* only while the loop sleeps through a quiet period to that period's end.
C15_NextBoundary ==
    /\ sched_exc # "ValueError"
    /\ sched_pc = "sleep"
         => /\ next_hour = C15_FirstBoundaryAfter(now)
            /\ next_hour >= now
            /\ file => C15_Inside(now)

====
